---- MODULE Spec2Model ----
(***************************************************************************)
(* A model of fresnelier.py: main's validation and dispatch, the Fresnel   *)
(* zone plate generator and the photon sieve generator (regular and        *)
(* random spacing).                                                        *)
(*                                                                         *)
(* Real numbers are kept in fixed point.  Lengths (radii, thicknesses) are *)
(* integers counting 1/Scale of a pixel (or of the unit of length before   *)
(* the normalisation); cosines and sines are integers counting 1/TrigScale.*)
(* int() truncates toward zero, // floors, as in Python.  A mask is the    *)
(* set of its opaque pixels <<x, y>> (x the column, y the row); every      *)
(* other pixel of the image_size x image_size canvas is 0.                 *)
(*                                                                         *)
(* An angle is kept as a whole number of units, a full turn being          *)
(* AngleDen(num_dots) units: the evenly spaced angles of np.linspace are   *)
(* multiples of 2*OffsetSteps units, and random.uniform(0, pi/num_dots) is *)
(* a draw of 0..OffsetSteps units.  cos and sin have period one turn, so   *)
(* random_angle is kept modulo AngleDen(num_dots).                         *)
(***************************************************************************)
EXTENDS Integers, Sequences, FiniteSets, TLC

\* Bounds of the model.
MaxRings == 4
MaxRandomRings == 2
OffsetSteps == 2

\* Fixed-point resolutions.
Scale == 10 ^ 3
TrigScale == 10 ^ 4

\* Inputs: <<wavelength, focal_length>> after convert_units, both in one unit.
\* The first two are valid; a zero focal length, a zero wavelength and a
\* negative wavelength are not.
Parameters == {<<1, 1>>, <<1, 100>>, <<1, 0>>, <<0, 1>>, <<-1, 100>>}
Generates == {{"f"}, {"p"}, {"r"}, {"f", "p"}}
\* random.uniform(1.3, 1.5), in hundredths.
Factors == {130, 140, 150}

min_ring_thickness_px == 8

VARIABLES pc, wavelength, focal_length, num_rings, generate, images, error,
          title, random_spacing, image_size, radii, image, k, filled,
          dot_radius, num_dots, idx, random_angle, x, y

vars == <<pc, wavelength, focal_length, num_rings, generate, images, error,
          title, random_spacing, image_size, radii, image, k, filled,
          dot_radius, num_dots, idx, random_angle, x, y>>

locals == <<title, random_spacing, image_size, radii, image, k, filled,
            dot_radius, num_dots, idx, random_angle, x, y>>

inputs == <<wavelength, focal_length, num_rings, generate>>

----------------------------------------------------------------------------
\* Arithmetic.

Max(a, b) == IF a >= b THEN a ELSE b

Min(a, b) == IF a <= b THEN a ELSE b

\* int(n / d) for d > 0: truncation toward zero.
Trunc(n, d) == IF n >= 0 THEN n \div d ELSE -((-n) \div d)

\* n / d rounded to the nearest integer, n >= 0, d > 0.
RoundDiv(n, d) == (2 * n + d) \div (2 * d)

RECURSIVE SqrtSearch(_, _, _)
SqrtSearch(n, lo, hi) ==
    IF lo = hi THEN lo
    ELSE LET mid == (lo + hi + 1) \div 2
         IN  IF mid * mid <= n THEN SqrtSearch(n, mid, hi)
             ELSE SqrtSearch(n, lo, mid - 1)

\* The integer part of the square root of n >= 0.
ISqrt(n) == SqrtSearch(n, 0, 46340)

\* The sign of sqrt(d2) - r / Scale, for an integer d2 >= 0 and a fixed-point
\* r >= 0: how a pixel's distance compares with a radius.
DistCmp(d2, r) ==
    LET q == r \div Scale
        lhs == (d2 - q * q) * Scale * Scale
        rhs == (r - q * Scale) * (r + q * Scale)
    IN  IF d2 >= (q + 1) * (q + 1) THEN 1
        ELSE IF d2 < q * q THEN -1
        ELSE IF lhs > rhs THEN 1
        ELSE IF lhs < rhs THEN -1
        ELSE 0

\* sin and cos of xs / TrigScale radians, 0 <= xs / TrigScale <= pi/4, by their
\* Taylor polynomials.
SinSmall(xs) ==
    LET x2 == RoundDiv(xs * xs, TrigScale)
        x3 == RoundDiv(xs * x2, TrigScale)
        x5 == RoundDiv(x3 * x2, TrigScale)
        x7 == RoundDiv(x5 * x2, TrigScale)
    IN  RoundDiv(5040 * xs - 840 * x3 + 42 * x5 - x7, 5040)

CosSmall(xs) ==
    LET x2 == RoundDiv(xs * xs, TrigScale)
        x4 == RoundDiv(x2 * x2, TrigScale)
        x6 == RoundDiv(x4 * x2, TrigScale)
        x8 == RoundDiv(x6 * x2, TrigScale)
    IN  RoundDiv(40320 * TrigScale - 20160 * x2 + 1680 * x4 - 56 * x6 + x8,
                 40320)

\* <<cos, sin>> of the angle 2*pi*a/den, scaled by TrigScale.  The angle is
\* reduced to the first half quadrant exactly; pi is 355/113.
CosSin(a, den) ==
    LET am  == a % den
        q   == (4 * am) \div den
        rem == 4 * am - q * den
        low == 2 * rem <= den
        xs  == RoundDiv(355 * TrigScale * (IF low THEN rem ELSE den - rem),
                        113 * 2 * den)
        c   == IF low THEN CosSmall(xs) ELSE SinSmall(xs)
        s   == IF low THEN SinSmall(xs) ELSE CosSmall(xs)
    IN  CASE q = 0 -> <<c, s>>
          [] q = 1 -> <<-s, c>>
          [] q = 2 -> <<-c, -s>>
          [] OTHER -> <<s, -c>>

----------------------------------------------------------------------------
\* The radius sequence and the canvas (both generators compute them alike).

\* 4 * (n*wavelength*focal_length + n^2 * wavelength^2 / 4).
Radicand4(n, w, f) == 4 * n * w * f + n * n * w * w

\* np.sqrt(n * wavelength * focal_length + (n ** 2) * (wavelength ** 2) / 4),
\* in fixed point; the radicand is not negative.
RingRadius(n, w, f) == ISqrt(Radicand4(n, w, f) * ((Scale * Scale) \div 4))

\* The list radii before normalisation, ring n at position n.
PhysicalRadii(w, f, n) == [i \in 1..n |-> RingRadius(i, w, f)]

RECURSIVE SeqMin(_, _)
SeqMin(s, i) == IF i = Len(s) THEN s[i] ELSE Min(s[i], SeqMin(s, i + 1))

\* min(np.diff(radii)).
MinRingThickness(r) == SeqMin([i \in 1..(Len(r) - 1) |-> r[i + 1] - r[i]], 1)

\* np.sqrt of a negative number is nan, and then so are the minimum of the
\* differences and the image size; a zero wavelength makes every radius 0 and
\* the image size inf * 0 = nan.  int(nan) raises ValueError.
SizeIsNaN(w, f, n) ==
    \/ \E i \in 1..n : Radicand4(i, w, f) < 0
    \/ MinRingThickness(PhysicalRadii(w, f, n)) = 0

\* int((min_ring_thickness_px / min_ring_thickness) * radii[-1] * 2).
ImageSize(w, f, n) ==
    LET r == PhysicalRadii(w, f, n)
    IN  Trunc(2 * min_ring_thickness_px * r[n], MinRingThickness(r))

\* (radii / radii[-1]) * (image_size // 2).
ScaledRadii(w, f, n) ==
    LET r    == PhysicalRadii(w, f, n)
        half == ImageSize(w, f, n) \div 2
    IN  [i \in 1..n |-> (r[i] * half * Scale) \div r[n]]

\* radii[j] of the code (0-based) in the 1-based sequence r.
At(r, j) == r[j + 1]

Pixels(size) == (0..(size - 1)) \X (0..(size - 1))

Dist2(p, center) ==
    (p[1] - center) * (p[1] - center) + (p[2] - center) * (p[2] - center)

\* ClearBorder with the index -1 forgotten: only row 0 and column 0 are
\* cleared.
ClearBorderFirstOnly(img, size) == {p \in img : p[1] # 0 /\ p[2] # 0}

\* image[:, [0, -1]] = 0; image[[0, -1], :] = 0.
ClearBorder(img, size) ==
    {p \in img : /\ p[1] # 0 /\ p[1] # size - 1
                 /\ p[2] # 0 /\ p[2] # size - 1}

\* ZoneBand with distance > radii[j-1] for distance >= radii[j-1].
ZoneBandStrictLower(size, r, j) ==
    {p \in Pixels(size) :
        /\ DistCmp(Dist2(p, size \div 2), r[j]) > 0
        /\ DistCmp(Dist2(p, size \div 2), r[j + 1]) < 0}

\* The pixels image[(distance >= radii[j-1]) & (distance < radii[j])] selects.
ZoneBand(size, r, j) ==
    {p \in Pixels(size) :
        /\ DistCmp(Dist2(p, size \div 2), At(r, j - 1)) >= 0
        /\ DistCmp(Dist2(p, size \div 2), At(r, j)) < 0}

----------------------------------------------------------------------------
\* The photon sieve's dots.

\* ring_thickness = radius_outer - radius_inner, for ring j of the code.
RingThickness(r, j) == At(r, j) - At(r, j - 1)

\* max(int(ring_thickness / 2), min_ring_thickness_px // 2).
DotRadius(t) == Max(Trunc(t, 2 * Scale), min_ring_thickness_px \div 2)

\* max(1, int(circumference / ((dot_spacing_min + dot_spacing_max) / 2))) with
\* circumference = 2 * pi * radius_outer and the spacings 3.0 and 4.0 dot radii
\* (counted in tenths).
NumDotsRegular(ro, dr) ==
    Max(1, Trunc(2 * 355 * ro * 10,
                 113 * Scale * ((30 * dr + 40 * dr) \div 2)))

\* max(1, int(circumference / ((dot_spacing_min_rand + dot_spacing_max_rand)
\*                             * random.uniform(1.3, 1.5)))), the spacings 1.1
\* and 4.0 dot radii (in tenths), the factor u in hundredths.
NumDotsRandom(ro, dr, u) ==
    Max(1, Trunc(2 * 355 * ro * 10,
                 113 * (Scale \div 100) * (11 * dr + 40 * dr) * u))

\* Angle units in a full turn.
AngleDen(n) == 2 * OffsetSteps * n

\* angles[i] of np.linspace(0, 2 * np.pi, num_dots, endpoint=False), in units.
Angle(i) == 2 * OffsetSteps * i

\* <<x, y>> with x = center + int((radius_inner + ring_thickness / 2) *
\* np.cos(random_angle)) and y likewise with np.sin.
Position(size, r, j, a, n) ==
    LET center == size \div 2
        mid    == At(r, j - 1) + RingThickness(r, j) \div 2
        cs     == CosSin(a, AngleDen(n))
    IN  <<center + Trunc(mid * cs[1], Scale * TrigScale),
          center + Trunc(mid * cs[2], Scale * TrigScale)>>

\* 0 <= x < image_size and 0 <= y < image_size.
InCanvas(px, py, size) == 0 <= px /\ px < size /\ 0 <= py /\ py < size

\* Acceptable with the pixel test inverted (image[y, x] == 1).
AcceptableOpaque(px, py, img, size) ==
    InCanvas(px, py, size) /\ <<px, py>> \in img

\* The test that ends the while loop: the candidate is on the canvas and its
\* pixel is 0.
Acceptable(px, py, img, size) ==
    InCanvas(px, py, size) /\ <<px, py>> \notin img

\* rr, cc = np.ogrid[-dr:dr, -dr:dr]; mask = rr**2 + cc**2 <= dr**2: entry
\* (i, j) of the 2*dr x 2*dr mask, row i, column j.
DiskMask(i, j, dr) == (i - dr) * (i - dr) + (j - dr) * (j - dr) <= dr * dr

\* The image after image_slice[mask] = 1, image_slice being
\* image[y_min:y_max, x_min:x_max] and mask cut to the slice's shape from its
\* first row and column.
Stamp(img, size, px, py, dr) ==
    LET y_min == Max(0, py - dr)
        y_max == Min(size, py + dr)
        x_min == Max(0, px - dr)
        x_max == Min(size, px + dr)
        rows  == Min(Max(0, y_max - y_min), 2 * dr)
        cols  == Min(Max(0, x_max - x_min), 2 * dr)
    IN  img \cup {<<x_min + j, y_min + i>> :
                     <<i, j>> \in {ij \in (0..(rows - 1)) \X (0..(cols - 1)) :
                                      DiskMask(ij[1], ij[2], dr)}}

\* Lines 115-124: the disk is stamped when its centre is on the canvas.
StampIfInCanvas(img, size, px, py, dr) ==
    IF InCanvas(px, py, size) THEN Stamp(img, size, px, py, dr) ELSE img

\* mask = x**2 + y**2 <= radius_outer**2 with radius_outer = radii[0].
CenterMask(size, r) ==
    {p \in Pixels(size) : DistCmp(Dist2(p, size \div 2), At(r, 0)) <= 0}

\* NextRing with the step of range(1, num_rings, 2) forgotten.
NextRingStepOne(j) == j + 1

\* range(1, num_rings, 2): the ring after ring j.
NextRing(j) == j + 2

----------------------------------------------------------------------------
\* The program.

\* The keys of the dict images.
FresnelTitle == "fresnel_zone_plate"
SieveTitle == "photon_sieve"
RandomSieveTitle == "random_photon_sieve"

NoLocals ==
    /\ title = ""
    /\ random_spacing = FALSE
    /\ image_size = 0
    /\ radii = <<>>
    /\ image = {}
    /\ k = 0
    /\ filled = {}
    /\ dot_radius = 0
    /\ num_dots = 0
    /\ idx = 0
    /\ random_angle = 0
    /\ x = 0
    /\ y = 0

\* The arguments main has parsed.  The random sieve is asked for only up to
\* MaxRandomRings rings.
Init ==
    /\ pc = "main"
    /\ \E p \in Parameters : wavelength = p[1] /\ focal_length = p[2]
    /\ num_rings \in 0..MaxRings
    /\ generate \in Generates
    /\ "r" \in generate => num_rings <= MaxRandomRings
    /\ images = <<>>
    /\ error = ""
    /\ NoLocals

\* if num_rings <= 1: raise ValueError(...); images = {}.
Validate ==
    /\ pc = "main"
    /\ IF num_rings <= 1
       THEN /\ pc' = "raised"
            /\ error' = "Number of rings must be at least 1"
       ELSE /\ pc' = "if_f"
            /\ error' = error
    /\ UNCHANGED <<inputs, images, locals>>

\* A generator's first lines: the radii, the image size, the normalised radii,
\* the zero image (in the photon sieve with its centre circle set to 0).
\* int() of a nan image size raises.
Enter(t, rs, first, start) ==
    IF SizeIsNaN(wavelength, focal_length, num_rings)
    THEN /\ pc' = "raised"
         /\ error' = "cannot convert float NaN to integer"
         /\ UNCHANGED <<inputs, images, locals>>
    ELSE /\ pc' = start
         /\ title' = t
         /\ random_spacing' = rs
         /\ image_size' = ImageSize(wavelength, focal_length, num_rings)
         /\ radii' = ScaledRadii(wavelength, focal_length, num_rings)
         /\ image' = IF start = "sieve_ring"
                     THEN {} \ CenterMask(image_size', radii')
                     ELSE {}
         /\ k' = first
         /\ filled' = {}
         /\ UNCHANGED <<inputs, images, error, dot_radius, num_dots, idx,
                        random_angle, x, y>>

\* return image, into images[title]; the locals are gone.
Return(next) ==
    /\ pc' = next
    /\ images' = (title :> [size |-> image_size,
                            mask |-> ClearBorder(image, image_size),
                            rings |-> filled]) @@ images
    /\ title' = ""
    /\ random_spacing' = FALSE
    /\ image_size' = 0
    /\ radii' = <<>>
    /\ image' = {}
    /\ k' = 0
    /\ filled' = {}
    /\ dot_radius' = 0
    /\ num_dots' = 0
    /\ idx' = 0
    /\ random_angle' = 0
    /\ x' = 0
    /\ y' = 0
    /\ UNCHANGED <<inputs, error>>

\* if 'f' in args.generate: generate_fresnel_zone_plate(...), lines 24-41.
CallFresnel ==
    /\ pc = "if_f"
    /\ "f" \in generate
    /\ Enter(FresnelTitle, FALSE, 0, "zone_ring")

SkipFresnel ==
    /\ pc = "if_f"
    /\ "f" \notin generate
    /\ pc' = "if_p"
    /\ UNCHANGED <<inputs, images, error, locals>>

\* One iteration of for k in range(num_rings): an odd ring is set to 1.
ZoneRing ==
    /\ pc = "zone_ring"
    /\ k < num_rings
    /\ IF k % 2 = 1
       THEN /\ image' = image \cup ZoneBand(image_size, radii, k)
            /\ filled' = filled \cup {k}
       ELSE UNCHANGED <<image, filled>>
    /\ k' = k + 1
    /\ UNCHANGED <<pc, inputs, images, error, title, random_spacing,
                   image_size, radii, dot_radius, num_dots, idx, random_angle,
                   x, y>>

\* The loop is over: the border is cleared and the image returned.
ZoneReturn ==
    /\ pc = "zone_ring"
    /\ k >= num_rings
    /\ Return("if_p")

\* if 'p' in args.generate: generate_photon_sieve(...), lines 56-76; the centre
\* circle of the zero image is set to 0.
CallSieve ==
    /\ pc = "if_p"
    /\ "p" \in generate
    /\ Enter(SieveTitle, FALSE, 1, "sieve_ring")

SkipSieve ==
    /\ pc = "if_p"
    /\ "p" \notin generate
    /\ pc' = "if_r"
    /\ UNCHANGED <<inputs, images, error, locals>>

\* if 'r' in args.generate: generate_photon_sieve(..., random_spacing=True).
CallRandomSieve ==
    /\ pc = "if_r"
    /\ "r" \in generate
    /\ Enter(RandomSieveTitle, TRUE, 1, "sieve_ring")

SkipRandomSieve ==
    /\ pc = "if_r"
    /\ "r" \notin generate
    /\ pc' = "exit"
    /\ UNCHANGED <<inputs, images, error, locals>>

\* The head of an iteration of for k in range(1, num_rings, 2), lines 80-95:
\* the dot radius and the number of dots of ring k.
SieveRing ==
    /\ pc = "sieve_ring"
    /\ k < num_rings
    /\ pc' = "sieve_angle"
    /\ dot_radius' = DotRadius(RingThickness(radii, k))
    /\ IF random_spacing
       THEN \E u \in Factors :
               num_dots' = NumDotsRandom(At(radii, k), dot_radius', u)
       ELSE num_dots' = NumDotsRegular(At(radii, k), dot_radius')
    /\ idx' = 0
    /\ filled' = filled \cup {k}
    /\ UNCHANGED <<inputs, images, error, title, random_spacing, image_size,
                   radii, image, k, random_angle, x, y>>

\* The loop over the dark rings is over.
SieveReturn ==
    /\ pc = "sieve_ring"
    /\ k >= num_rings
    /\ Return(IF random_spacing THEN "exit" ELSE "if_r")

\* for angle in angles, regular spacing: the dot is stamped at the angle.
SieveAngleRegular ==
    /\ pc = "sieve_angle"
    /\ idx < num_dots
    /\ ~random_spacing
    /\ random_angle' = Angle(idx)
    /\ LET p == Position(image_size, radii, k, random_angle', num_dots)
       IN  /\ x' = p[1]
           /\ y' = p[2]
           /\ image' = StampIfInCanvas(image, image_size, p[1], p[2],
                                       dot_radius)
    /\ idx' = idx + 1
    /\ UNCHANGED <<pc, inputs, images, error, title, random_spacing,
                   image_size, radii, k, filled, dot_radius, num_dots>>

\* SieveAngleRandom without the while loop: the disk is stamped at the x, y
\* left by the angle before.
SieveAngleRandomNoLoop ==
    /\ pc = "sieve_angle"
    /\ idx < num_dots
    /\ random_spacing
    /\ \E o \in 0..OffsetSteps :
          random_angle' = (Angle(idx) + o) % AngleDen(num_dots)
    /\ pc' = "sieve_stamp"
    /\ UNCHANGED <<inputs, images, error, title, random_spacing, image_size,
                   radii, image, k, filled, dot_radius, num_dots, idx, x, y>>

\* for angle in angles, random spacing:
\* random_angle = angle + random.uniform(0, np.pi/num_dots).
SieveAngleRandom ==
    /\ pc = "sieve_angle"
    /\ idx < num_dots
    /\ random_spacing
    /\ \E o \in 0..OffsetSteps :
          random_angle' = (Angle(idx) + o) % AngleDen(num_dots)
    /\ pc' = "sieve_while"
    /\ UNCHANGED <<inputs, images, error, title, random_spacing, image_size,
                   radii, image, k, filled, dot_radius, num_dots, idx, x, y>>

\* One iteration of while True: the candidate x, y; break when it is
\* acceptable, otherwise random_angle += random.uniform(0, np.pi/num_dots).
SieveWhile ==
    /\ pc = "sieve_while"
    /\ LET p == Position(image_size, radii, k, random_angle, num_dots)
       IN  /\ x' = p[1]
           /\ y' = p[2]
           /\ IF Acceptable(p[1], p[2], image, image_size)
              THEN /\ pc' = "sieve_stamp"
                   /\ random_angle' = random_angle
              ELSE /\ pc' = "sieve_while"
                   /\ \E o \in 0..OffsetSteps :
                         random_angle' = (random_angle + o) % AngleDen(num_dots)
    /\ UNCHANGED <<inputs, images, error, title, random_spacing, image_size,
                   radii, image, k, filled, dot_radius, num_dots, idx>>

\* After the break: the disk is stamped at x, y (lines 106-112), x and y are
\* computed again from random_angle and the disk stamped again (115-124).
SieveStamp ==
    /\ pc = "sieve_stamp"
    /\ LET p == Position(image_size, radii, k, random_angle, num_dots)
       IN  /\ x' = p[1]
           /\ y' = p[2]
           /\ image' = StampIfInCanvas(Stamp(image, image_size, x, y,
                                             dot_radius),
                                       image_size, p[1], p[2], dot_radius)
    /\ idx' = idx + 1
    /\ pc' = "sieve_angle"
    /\ UNCHANGED <<inputs, images, error, title, random_spacing, image_size,
                   radii, k, filled, dot_radius, num_dots, random_angle>>

\* The angles of ring k are done: the next dark ring.
SieveRingDone ==
    /\ pc = "sieve_angle"
    /\ idx >= num_dots
    /\ k' = NextRing(k)
    /\ pc' = "sieve_ring"
    /\ UNCHANGED <<inputs, images, error, title, random_spacing, image_size,
                   radii, image, filled, dot_radius, num_dots, idx,
                   random_angle, x, y>>

Next ==
    \/ Validate
    \/ CallFresnel
    \/ SkipFresnel
    \/ ZoneRing
    \/ ZoneReturn
    \/ CallSieve
    \/ SkipSieve
    \/ CallRandomSieve
    \/ SkipRandomSieve
    \/ SieveRing
    \/ SieveReturn
    \/ SieveAngleRegular
    \/ SieveAngleRandom
    \/ SieveWhile
    \/ SieveStamp
    \/ SieveRingDone

Spec == Init /\ [][Next]_vars

\* How far main is from its end: the statements of main in their order, a
\* generator's loops inside its call.
Stage ==
    CASE pc = "main" -> 7
      [] pc = "if_f" -> 6
      [] pc = "zone_ring" -> 5
      [] pc = "if_p" -> 4
      [] pc = "if_r" -> 2
      [] pc \in {"sieve_ring", "sieve_angle", "sieve_while", "sieve_stamp"} ->
            IF random_spacing THEN 1 ELSE 3
      [] OTHER -> 0

RingWeight == 10 ^ 3
StageWeight == 10 ^ 4

\* What is left of the running generator's loops: rings, then angles, then the
\* three places of one angle.
Inner ==
    CASE pc = "zone_ring" -> num_rings + 1 - k
      [] pc = "sieve_ring" -> (num_rings + 2 - k) * RingWeight
      [] pc = "sieve_angle" -> (num_rings + 2 - k) * RingWeight - 1 - 3 * idx
      [] pc = "sieve_while" -> (num_rings + 2 - k) * RingWeight - 2 - 3 * idx
      [] pc = "sieve_stamp" -> (num_rings + 2 - k) * RingWeight - 3 - 3 * idx
      [] OTHER -> 0

Rank == Stage * StageWeight + Inner

----------------------------------------------------------------------------
\* Properties.

ValidParameters == wavelength > 0 /\ focal_length > 0 /\ num_rings >= 2

\* The canvas of the run, as each generator computes it.
RunRadii == ScaledRadii(wavelength, focal_length, num_rings)

OnBorder(p, size) ==
    p[1] = 0 \/ p[1] = size - 1 \/ p[2] = 0 \/ p[2] = size - 1

\* radii[j-1] <= distance < radii[j] for an odd j with 1 <= j < n.
InOddBand(p, size, r, n) ==
    \E j \in 1..(n - 1) :
        /\ j % 2 = 1
        /\ DistCmp(Dist2(p, size \div 2), r[j]) >= 0
        /\ DistCmp(Dist2(p, size \div 2), r[j + 1]) < 0

OddRings(n) == {j \in 1..(n - 1) : j % 2 = 1}

\* C1, as stated: in the mask generate_fresnel_zone_plate returns (main is at
\* the next if, or at its end), a pixel is
\* opaque if and only if its distance from the centre lies in the band
\* [radii[j-1], radii[j]) of an odd j, 1 <= j < num_rings.
C1_ZoneOpaqueIffInOddBand ==
    (ValidParameters /\ pc \in {"if_p", "exit"}
        /\ FresnelTitle \in DOMAIN images) =>
        LET m == images[FresnelTitle]
            r == RunRadii
        IN  m.mask = {p \in Pixels(m.size) :
                         InOddBand(p, m.size, r, num_rings)}

\* C1, amended: in the returned zone plate mask, a pixel off the border row and
\* column is opaque if and only if its distance lies in the band of an odd
\* ring; a pixel of the border is 0 even when its distance lies in such a band.
C1_ZoneOpaqueIffInOddBandOffBorder ==
    (pc \in {"if_p", "exit"} /\ FresnelTitle \in DOMAIN images) =>
        LET m == images[FresnelTitle]
            r == RunRadii
        IN  m.mask = {p \in Pixels(m.size) :
                         /\ ~OnBorder(p, m.size)
                         /\ InOddBand(p, m.size, r, num_rings)}

\* A zone plate mask is returned whose border crosses a dark band.
C1_ZoneMaskWithBandOnBorder ==
    /\ ValidParameters
    /\ FresnelTitle \in DOMAIN images
    /\ pc = "if_p"
    /\ LET m == images[FresnelTitle]
           r == RunRadii
       IN  /\ m.mask # {}
           /\ \E p \in Pixels(m.size) :
                 /\ OnBorder(p, m.size)
                 /\ InOddBand(p, m.size, r, num_rings)

\* C2, as stated: in the mask generate_photon_sieve returns, with regular or
\* random spacing, every pixel with (x-center)^2 + (y-center)^2 <= radii[0]^2
\* is 0.
C2_InnermostDiskOpen ==
    ValidParameters =>
    \A t \in {SieveTitle, RandomSieveTitle} \cap DOMAIN images :
        LET r == RunRadii
        IN  \A p \in images[t].mask :
               DistCmp(Dist2(p, images[t].size \div 2), r[1]) > 0

\* C3: every pixel of row 0, row image_size-1, column 0 and column
\* image_size-1 of every mask returned, by any of the three generators, is 0.
C3_BorderIsZero ==
    \A t \in DOMAIN images :
        \A p \in images[t].mask : ~OnBorder(p, images[t].size)

\* A zone plate and a photon sieve have been returned, neither empty.
C3_MasksReturned ==
    /\ ValidParameters
    /\ {FresnelTitle, SieveTitle} \subseteq DOMAIN images
    /\ \A t \in DOMAIN images : images[t].mask # {}

\* C4, as stated: for valid parameters every difference of consecutive
\* normalised radii is at least min_ring_thickness_px (8) pixels.
C4_RingsAtLeastEightPixels ==
    (ValidParameters /\ radii # <<>>) =>
        \A j \in 1..(Len(radii) - 1) :
            radii[j + 1] - radii[j] >= min_ring_thickness_px * Scale

\* C5, as stated: when the wavelength or the focal length is not positive, or
\* num_rings < 2, no generator is invoked and no mask is produced.
C5_InvalidParametersProduceNothing ==
    ~ValidParameters => (title = "" /\ DOMAIN images = {})

C7_StampedDiskIsWhole ==
    (ValidParameters /\ pc = "sieve_angle" /\ idx > 0) =>
        \A p \in Pixels(image_size) :
            (p[1] - x) * (p[1] - x) + (p[2] - y) * (p[2] - y)
                    <= dot_radius * dot_radius
                => p \in image

C9_NumDotsFromMidpointSpacing ==
    (ValidParameters /\ pc = "sieve_angle") =>
        IF random_spacing
        THEN \E u \in 130..150 :
                num_dots = Max(1, Trunc(2 * 355 * At(radii, k) * 10 * 2,
                                        113 * (Scale \div 100) * 51
                                            * dot_radius * u))
        ELSE num_dots = Max(1, Trunc(2 * 355 * At(radii, k) * 10,
                                     113 * Scale * 35 * dot_radius))

\* C10: the photon sieve populates exactly the odd rings 1 <= j < num_rings,
\* the rings the zone plate fills, num_rings // 2 of them; each has at least
\* one dot, the indices k-1 and k it uses lie in 0..num_rings-1, and every
\* generator asked for has returned its mask when main is past them.
C10_DarkRingsAndIndices ==
    /\ \A t \in DOMAIN images :
          /\ images[t].rings = OddRings(num_rings)
          /\ Cardinality(images[t].rings) = num_rings \div 2
    /\ pc \in {"sieve_angle", "sieve_while", "sieve_stamp"} =>
          /\ k % 2 = 1
          /\ 0 <= k - 1
          /\ k <= num_rings - 1
          /\ num_dots >= 1
    /\ pc = "exit" =>
          DOMAIN images =
              {t \in {FresnelTitle, SieveTitle, RandomSieveTitle} :
                  \/ t = FresnelTitle /\ "f" \in generate
                  \/ t = SieveTitle /\ "p" \in generate
                  \/ t = RandomSieveTitle /\ "r" \in generate}

\* With num_rings = 2 the zone plate and the photon sieve have both returned,
\* one dark ring each.
C10_TwoRingsReturned ==
    /\ ValidParameters
    /\ num_rings = 2
    /\ pc = "exit"
    /\ {FresnelTitle, SieveTitle} \subseteq DOMAIN images
    /\ images[SieveTitle].rings = {1}

====
